---- MODULE Spec2Model ----
(***************************************************************************)
(* A model of generate_routes.py: the page generator of ui_components.     *)
(*                                                                         *)
(* Text.  A component name is a sequence of one-character strings, so that *)
(* str.capitalize() can be computed character by character; Str joins it   *)
(* into a string.  The content of a file is a sequence of chunks (strings) *)
(* whose concatenation is the text of the file; the rendered template has  *)
(* one chunk per literal run and per placeholder.  A TLA+ string cannot    *)
(* hold U+0060 (the backtick of the template's doc comments): Backtick     *)
(* stands for it.                                                          *)
(*                                                                         *)
(* File system.  fs maps a path (a sequence of segments, relative to the   *)
(* working directory) to a node; a path outside DOMAIN fs does not exist.  *)
(***************************************************************************)
EXTENDS Integers, Sequences, FiniteSets, TLC

VARIABLES
    fs,          \* the file system: path -> node
    components,  \* COMPONENTS, the configured name list
    active,      \* the instances of the script that are started
    pc,          \* per instance: the statement it is at
    idx,         \* per instance: the index in COMPONENTS of the loop's name
    lvl,         \* per instance: the path length os.makedirs is working on
    subs,        \* per instance: the loop's substitutions dictionary
    content,     \* per instance: the loop's rendered content
    err,         \* per instance: the exception that ended the run
    trace,       \* per instance: what the run did so far (system calls, prints)
    fsStart,     \* per instance: the file system when the run started
    faults,      \* I/O faults (disk full) the environment may still inject
    runs,        \* runs started so far
    prevStatus,  \* how the previous run ended
    prevFs       \* the file system when the previous run ended

vars == <<fs, components, active, pc, idx, lvl, subs, content, err, trace,
          fsStart, faults, runs, prevStatus, prevFs>>

----------------------------------------------------------------------------
(* Bounds *)

\* longest name list a run is configured with
MaxNames == 2
\* runs of the script in one behaviour
MaxRuns == 2
\* I/O faults the environment injects in one behaviour
MaxFaults == 1
\* longest component name of the capitalisation specification
MaxLen == 3

----------------------------------------------------------------------------
(* Text *)

LOWER == <<"a","b","c","d","e","f","g","h","i","j","k","l","m",
           "n","o","p","q","r","s","t","u","v","w","x","y","z">>
UPPER == <<"A","B","C","D","E","F","G","H","I","J","K","L","M",
           "N","O","P","Q","R","S","T","U","V","W","X","Y","Z">>

\* str.upper() and str.lower() of one character
upper(c) == IF \E i \in 1..Len(LOWER) : LOWER[i] = c
            THEN UPPER[CHOOSE i \in 1..Len(LOWER) : LOWER[i] = c]
            ELSE c
lower(c) == IF \E i \in 1..Len(UPPER) : UPPER[i] = c
            THEN LOWER[CHOOSE i \in 1..Len(UPPER) : UPPER[i] = c]
            ELSE c

\* a mutant of capitalize: the first character is left as it is
capitalize_noop(name) == name

\* str.capitalize(): the first character uppercased, all the others lowercased
capitalize(name) ==
    [i \in 1..Len(name) |-> IF i = 1 THEN upper(name[i]) ELSE lower(name[i])]

\* the string a sequence of characters spells
RECURSIVE Str(_)
Str(s) == IF s = <<>> THEN "" ELSE Head(s) \o Str(Tail(s))

Backtick == "U+0060"

\* the shipped name list
COMPONENTS == <<
    <<"a","l","e","r","t">>,
    <<"b","a","d","g","e">>,
    <<"c","a","r","d">>,
    <<"c","h","e","c","k","b","o","x">>,
    <<"d","i","v","i","d","e","r">>,
    <<"i","n","p","u","t">>,
    <<"l","i","n","k">>,
    <<"l","o","a","d","i","n","g">>,
    <<"p","r","o","g","r","e","s","s">>,
    <<"r","a","d","i","o">>,
    <<"s","e","l","e","c","t">>,
    <<"t","e","x","t","a","r","e","a">>,
    <<"t","o","g","g","l","e">> >>

\* os.path.join("examples", "deepyr_example", "lib", "pages", "component_routes")
TARGET_DIR == <<"examples", "deepyr_example", "lib", "pages", "component_routes">>

\* os.path.join of segments, as a string
RECURSIVE JoinPath(_)
JoinPath(p) == IF Len(p) = 0 THEN ""
               ELSE IF Len(p) = 1 THEN p[1]
               ELSE p[1] \o "/" \o JoinPath(Tail(p))

Lit(t) == [kind |-> "lit", text |-> t]
Var(n) == [kind |-> "var", text |-> n]

\* Template(...): the literal runs and the placeholders, in order
DART_TEMPLATE == <<
    Lit("import 'package:jaspr/jaspr.dart';\nimport '../preview/"),
    Var("preview_file_name"),
    Lit("';\n\n/// The page that showcases the " \o Backtick),
    Var("component_name_pascal_case"),
    Lit(Backtick \o " component.\n///\n/// This is a simple wrapper component that renders the " \o Backtick),
    Var("component_name_pascal_case"),
    Lit("Preview" \o Backtick \o ",\n/// which contains all the interactive examples and code snippets.\nclass "),
    Var("component_name_pascal_case"),
    Lit("Page extends StatelessComponent {\n  const "),
    Var("component_name_pascal_case"),
    Lit("Page({super.key});\n\n  @override\n  Iterable<Component> build(BuildContext context) sync* {\n    yield "),
    Var("component_name_pascal_case"),
    Lit("Preview();\n  }\n}\n") >>

\* a mutant of substitute: every placeholder gets the preview file name
substitute_first(tpl, mapping) ==
    [ok |-> TRUE,
     val |-> [i \in 1..Len(tpl) |->
                IF tpl[i].kind = "lit" THEN tpl[i].text
                ELSE mapping["preview_file_name"]]]

\* Template.substitute(mapping): KeyError on a placeholder the mapping lacks
substitute(tpl, mapping) ==
    IF \E i \in 1..Len(tpl) : tpl[i].kind = "var" /\ tpl[i].text \notin DOMAIN mapping
    THEN [ok |-> FALSE, val |-> <<>>]
    ELSE [ok |-> TRUE,
          val |-> [i \in 1..Len(tpl) |->
                     IF tpl[i].kind = "lit" THEN tpl[i].text
                     ELSE mapping[tpl[i].text]]]

\* f"{name}_page.dart"
FileName(name) == Str(name) \o "_page.dart"

\* f"{name}_preview.dart"
PreviewFileName(name) == Str(name) \o "_preview.dart"

\* the substitutions dictionary of the loop body
Substitutions(name) ==
    [file_name |-> FileName(name),
     preview_file_name |-> PreviewFileName(name),
     component_name_pascal_case |-> Str(capitalize(name))]

\* os.path.join(TARGET_DIR, file_name)
FilePath(name) == Append(TARGET_DIR, FileName(name))

\* a mutant of NameAt: the loop walks the list from its end
NameAt_rev(list, i) == list[Len(list) + 1 - i]

\* for name in COMPONENTS: the name of the i-th iteration
NameAt(list, i) == list[i]

\* the lines the script prints; the two banners are written with a doubled
\* backslash, so each is one line that starts with a backslash and an n
CreatedLine == "Created directory: " \o JoinPath(TARGET_DIR)
StartBanner == "\\nStarting file generation..."
FileLine(name) == "  -> Successfully created " \o JoinPath(FilePath(name))
CompleteBanner == "\\nFile generation complete!\\n"

----------------------------------------------------------------------------
(* The file system and the os calls the script makes *)

DirNode(w) == [kind |-> "dir", writable |-> w, data |-> <<>>]
FileNode(d) == [kind |-> "file", writable |-> TRUE, data |-> d]

Parent(path) == SubSeq(path, 1, Len(path) - 1)
Prefix(path, k) == SubSeq(path, 1, k)

\* mutants of exists: the check always fails, the check always passes
exists_never(f, path) == FALSE
exists_always(f, path) == TRUE

\* os.path.exists(path)
exists(f, path) == path \in DOMAIN f

\* f with node n at path
Put(f, path, n) == [q \in DOMAIN f \cup {path} |-> IF q = path THEN n ELSE f[q]]

\* what os.mkdir(path) raises in f, "ok" when it raises nothing
MkdirErrno(f, path) ==
    IF Parent(path) \notin DOMAIN f THEN "FileNotFoundError"
    ELSE IF f[Parent(path)].kind # "dir" THEN "NotADirectoryError"
    ELSE IF path \in DOMAIN f THEN "FileExistsError"
    ELSE IF ~f[Parent(path)].writable THEN "PermissionError"
    ELSE "ok"

\* the outcomes of os.mkdir(path): the file system's answer, or a disk-full
\* fault where the call would have succeeded
MkdirOutcomes(f, path, budget) ==
    IF MkdirErrno(f, path) # "ok" THEN {MkdirErrno(f, path)}
    ELSE {"ok"} \cup (IF budget > 0 THEN {"OSError"} ELSE {})

\* what open(path, "w") raises in f, "ok" when it raises nothing
OpenErrno(f, path) ==
    IF Parent(path) \notin DOMAIN f THEN "FileNotFoundError"
    ELSE IF f[Parent(path)].kind # "dir" THEN "NotADirectoryError"
    ELSE IF path \in DOMAIN f
         THEN (IF f[path].kind = "dir" THEN "IsADirectoryError" ELSE "ok")
    ELSE IF ~f[Parent(path)].writable THEN "PermissionError"
    ELSE "ok"

\* the outcomes of open(path, "w"); creating a file can find the disk full
OpenOutcomes(f, path, budget) ==
    IF OpenErrno(f, path) # "ok" THEN {OpenErrno(f, path)}
    ELSE {"ok"} \cup (IF budget > 0 /\ path \notin DOMAIN f THEN {"OSError"} ELSE {})

\* a mutant of OpenMode: the file is opened for appending
OpenMode_append == "a"

\* the mode of open(file_path, "w")
OpenMode == "w"

\* open(path, mode) succeeding: the file is created if it is missing, and
\* mode "w" truncates it to nothing
open_file(f, path, mode) ==
    IF mode = "w" \/ path \notin DOMAIN f THEN Put(f, path, FileNode(<<>>)) ELSE f

\* a mutant of Overlay: the data lands behind what the file holds
Overlay_end(data, old) == old \o data

\* the bytes of a file after data is written at offset 0 over old
Overlay(data, old) ==
    IF Len(old) > Len(data) THEN data \o SubSeq(old, Len(data) + 1, Len(old))
    ELSE data

\* f.write(content) and the flush that closes the file: the buffered chunks
\* go to the file opened before, at offset 0 (mode "w": the position of a
\* handle that wrote nothing yet) or at its end (mode "a")
write_close(f, path, data, mode) ==
    IF path \in DOMAIN f /\ f[path].kind = "file"
    THEN Put(f, path, FileNode(IF mode = "a" THEN f[path].data \o data
                               ELSE Overlay(data, f[path].data)))
    ELSE f

\* how many chunks a write cut short by a fault may leave on the disk:
\* none, the first, all but the last
TornLengths(data) == {0, 1, Len(data) - 1}

\* the chunks that reach the disk: all of them, or with a disk-full fault
\* a proper prefix
WriteOutcomes(data, budget) ==
    {[res |-> "ok", n |-> Len(data)]}
    \cup (IF budget > 0
          THEN {[res |-> "OSError", n |-> j] : j \in TornLengths(data)}
          ELSE {})

----------------------------------------------------------------------------
(* The initial states *)

Procs == {1, 2}

NoSubs == [file_name |-> "", preview_file_name |-> "", component_name_pascal_case |-> ""]

\* the shipped names the configured list is drawn from
Pool == {COMPONENTS[1], COMPONENTS[2], COMPONENTS[13]}

\* the name lists: no name twice, as the shipped list
NameLists ==
    UNION {{l \in [1..n -> Pool] : \A i, j \in 1..n : l[i] = l[j] => i = j}
           : n \in 0..MaxNames}

\* the function a set of <<path, node>> pairs describes
FsOf(S) == [q \in {e[1] : e \in S} |-> (CHOOSE e \in S : e[1] = q)[2]]

\* the first d segments of TARGET_DIR exist as directories below the working
\* directory; the deepest of them is writable or not
Chain(d, w) ==
    {<<Prefix(TARGET_DIR, k), DirNode(IF k = d THEN w ELSE TRUE)>> : k \in 0..d}

HandWritten == <<"// written by hand\n">>
Stale == <<"// an older version of this page, ", "longer than one chunk\n">>

\* what the target directory may hold before the first run: a page written
\* by hand, an older output of the generator, a directory in an output's place
PreEntries ==
    {<<Append(TARGET_DIR, "button_page.dart"), FileNode(HandWritten)>>,
     <<FilePath(COMPONENTS[1]), FileNode(Stale)>>,
     <<FilePath(COMPONENTS[2]), DirNode(TRUE)>>}

\* the file systems a run may start in: the target directory is there, with
\* some of PreEntries in it; or only d < 5 of its segments are, and the next
\* one is missing or is a regular file
InitialFileSystems ==
    {FsOf(Chain(Len(TARGET_DIR), w) \cup E) : w \in BOOLEAN, E \in SUBSET PreEntries}
    \cup {FsOf(Chain(d, w)) : d \in 0..(Len(TARGET_DIR) - 1), w \in BOOLEAN}
    \cup {FsOf(Chain(d, w) \cup {<<Prefix(TARGET_DIR, d + 1), FileNode(HandWritten)>>})
          : d \in 0..(Len(TARGET_DIR) - 1), w \in BOOLEAN}

\* the file systems of an undisturbed environment: every directory writable,
\* no regular file or directory in the way
PlainFileSystems ==
    {FsOf(Chain(Len(TARGET_DIR), TRUE) \cup E)
       : E \in SUBSET {e \in PreEntries : e[2].kind = "file"}}
    \cup {FsOf(Chain(d, TRUE)) : d \in 0..(Len(TARGET_DIR) - 1)}

InitWith(act, lists, fss, budget) ==
    /\ components \in lists
    /\ fs \in fss
    /\ active = act
    /\ pc = [p \in Procs |-> IF p \in act THEN "exists" ELSE "idle"]
    /\ idx = [p \in Procs |-> 0]
    /\ lvl = [p \in Procs |-> 0]
    /\ subs = [p \in Procs |-> NoSubs]
    /\ content = [p \in Procs |-> <<>>]
    /\ err = [p \in Procs |-> "none"]
    /\ trace = [p \in Procs |-> <<>>]
    /\ fsStart = [p \in Procs |-> fs]
    /\ faults = budget
    /\ runs = 1
    /\ prevStatus = "none"
    /\ prevFs = fs

\* one instance, any file system, an environment that may inject faults
Init == InitWith({1}, NameLists, InitialFileSystems, MaxFaults)

----------------------------------------------------------------------------
(* generate_files(), statement by statement *)

Event(op, path, res) == [op |-> op, path |-> path, res |-> res]
Log(p, e) == trace' = [trace EXCEPT ![p] = Append(@, e)]
Goto(p, l) == pc' = [pc EXCEPT ![p] = l]
Raise(p, e) == /\ pc' = [pc EXCEPT ![p] = "error"]
               /\ err' = [err EXCEPT ![p] = e]

history == <<fsStart, runs, prevStatus, prevFs, components, active>>

\* if not os.path.exists(TARGET_DIR):
Exists(p) ==
    /\ pc[p] = "exists"
    /\ Log(p, Event("exists", TARGET_DIR, IF exists(fs, TARGET_DIR) THEN "True" ELSE "False"))
    /\ IF exists(fs, TARGET_DIR)
       THEN Goto(p, "print_start") /\ UNCHANGED lvl
       ELSE Goto(p, "makedirs") /\ lvl' = [lvl EXCEPT ![p] = Len(TARGET_DIR)]
    /\ UNCHANGED <<fs, idx, subs, content, err, faults, history>>

\* os.makedirs(name), on the way up: while the parent of the path in hand is
\* missing, makedirs calls itself on the parent
MakedirsProbe(p) ==
    /\ pc[p] = "makedirs"
    /\ LET head == Prefix(TARGET_DIR, lvl[p] - 1) IN
       /\ IF Len(head) > 0
          THEN Log(p, Event("exists", head, IF exists(fs, head) THEN "True" ELSE "False"))
          ELSE UNCHANGED trace
       /\ IF Len(head) > 0 /\ ~exists(fs, head)
          THEN lvl' = [lvl EXCEPT ![p] = @ - 1] /\ UNCHANGED pc
          ELSE Goto(p, "mkdir") /\ UNCHANGED lvl
    /\ UNCHANGED <<fs, idx, subs, content, err, faults, history>>

\* os.makedirs(name), on the way down: mkdir of the path in hand.  A
\* FileExistsError of a parent's makedirs is passed over by the caller; any
\* error of the last mkdir, and any other error, ends the run
MakedirsMkdir(p) ==
    /\ pc[p] = "mkdir"
    /\ LET path == Prefix(TARGET_DIR, lvl[p]) IN
       \E r \in MkdirOutcomes(fs, path, faults) :
         /\ Log(p, Event("mkdir", path, r))
         /\ fs' = IF r = "ok" THEN Put(fs, path, DirNode(TRUE)) ELSE fs
         /\ faults' = IF r = "OSError" THEN faults - 1 ELSE faults
         /\ IF r = "ok" \/ (r = "FileExistsError" /\ lvl[p] < Len(TARGET_DIR))
            THEN /\ IF lvl[p] = Len(TARGET_DIR)
                    THEN Goto(p, "print_created") /\ UNCHANGED lvl
                    ELSE lvl' = [lvl EXCEPT ![p] = @ + 1] /\ UNCHANGED pc
                 /\ UNCHANGED err
            ELSE Raise(p, r) /\ UNCHANGED lvl
    /\ UNCHANGED <<idx, subs, content, history>>

\* print(f"Created directory: {TARGET_DIR}")
PrintCreated(p) ==
    /\ pc[p] = "print_created"
    /\ Log(p, Event("print", <<>>, CreatedLine))
    /\ Goto(p, "print_start")
    /\ UNCHANGED <<fs, idx, lvl, subs, content, err, faults, history>>

\* print("\\nStarting file generation..."): the literal holds a backslash and an n
PrintStart(p) ==
    /\ pc[p] = "print_start"
    /\ Log(p, Event("print", <<>>, StartBanner))
    /\ Goto(p, "for")
    /\ UNCHANGED <<fs, idx, lvl, subs, content, err, faults, history>>

\* for name in COMPONENTS: and the loop body up to the rendering of content
For(p) ==
    /\ pc[p] = "for"
    /\ IF idx[p] < Len(components)
       THEN LET name == NameAt(components, idx[p] + 1)
                r == substitute(DART_TEMPLATE, Substitutions(name)) IN
            /\ idx' = [idx EXCEPT ![p] = @ + 1]
            /\ subs' = [subs EXCEPT ![p] = Substitutions(name)]
            /\ IF r.ok
               THEN /\ content' = [content EXCEPT ![p] = r.val]
                    /\ Goto(p, "open")
                    /\ UNCHANGED err
               ELSE Raise(p, "KeyError") /\ UNCHANGED content
       ELSE /\ Goto(p, "print_complete")
            /\ UNCHANGED <<idx, subs, content, err>>
    /\ UNCHANGED <<fs, lvl, trace, faults, history>>

\* with open(file_path, "w") as f:
Open(p) ==
    /\ pc[p] = "open"
    /\ LET path == FilePath(NameAt(components, idx[p])) IN
       \E r \in OpenOutcomes(fs, path, faults) :
         /\ Log(p, Event("open", path, r))
         /\ fs' = IF r = "ok" THEN open_file(fs, path, OpenMode) ELSE fs
         /\ faults' = IF r = "OSError" THEN faults - 1 ELSE faults
         /\ IF r = "ok" THEN Goto(p, "write") /\ UNCHANGED err ELSE Raise(p, r)
    /\ UNCHANGED <<idx, lvl, subs, content, history>>

\* f.write(content), and the end of the with block, which flushes and closes
Write(p) ==
    /\ pc[p] = "write"
    /\ LET path == FilePath(NameAt(components, idx[p])) IN
       \E o \in WriteOutcomes(content[p], faults) :
         /\ Log(p, Event("write", path, o.res))
         /\ fs' = write_close(fs, path, SubSeq(content[p], 1, o.n), OpenMode)
         /\ faults' = IF o.res = "OSError" THEN faults - 1 ELSE faults
         /\ IF o.res = "ok" THEN Goto(p, "print_file") /\ UNCHANGED err
            ELSE Raise(p, o.res)
    /\ UNCHANGED <<idx, lvl, subs, content, history>>

\* print(f"  -> Successfully created {file_path}")
PrintFile(p) ==
    /\ pc[p] = "print_file"
    /\ Log(p, Event("print", <<>>, FileLine(NameAt(components, idx[p]))))
    /\ Goto(p, "for")
    /\ UNCHANGED <<fs, idx, lvl, subs, content, err, faults, history>>

\* print("\\nFile generation complete!\\n"), and the return
PrintComplete(p) ==
    /\ pc[p] = "print_complete"
    /\ Log(p, Event("print", <<>>, CompleteBanner))
    /\ Goto(p, "done")
    /\ UNCHANGED <<fs, idx, lvl, subs, content, err, faults, history>>

Running(p) == pc[p] \notin {"idle", "done", "error", "killed"}

\* one statement of instance p
Step(p) ==
    \/ Exists(p)
    \/ MakedirsProbe(p)
    \/ MakedirsMkdir(p)
    \/ PrintCreated(p)
    \/ PrintStart(p)
    \/ For(p)
    \/ Open(p)
    \/ Write(p)
    \/ PrintFile(p)
    \/ PrintComplete(p)

\* the process is killed between two statements: what it buffered is lost
Kill(p) ==
    /\ Running(p)
    /\ Goto(p, "killed")
    /\ UNCHANGED <<fs, idx, lvl, subs, content, err, trace, faults, history>>

\* the script is run again after a run has ended
Rerun(p) ==
    /\ pc[p] \in {"done", "error", "killed"}
    /\ runs < MaxRuns
    /\ runs' = runs + 1
    /\ prevStatus' = pc[p]
    /\ prevFs' = fs
    /\ fsStart' = [fsStart EXCEPT ![p] = fs]
    /\ pc' = [pc EXCEPT ![p] = "exists"]
    /\ idx' = [idx EXCEPT ![p] = 0]
    /\ lvl' = [lvl EXCEPT ![p] = 0]
    /\ subs' = [subs EXCEPT ![p] = NoSubs]
    /\ content' = [content EXCEPT ![p] = <<>>]
    /\ err' = [err EXCEPT ![p] = "none"]
    /\ trace' = [trace EXCEPT ![p] = <<>>]
    /\ UNCHANGED <<fs, faults, components, active>>

Next == \E p \in Procs : Step(p) \/ Kill(p) \/ Rerun(p)

Spec == Init /\ [][Next]_vars

\* two instances started together in an undisturbed environment: no fault,
\* no kill, every directory writable; the name list is one of NameLists or
\* the shipped list
InitConc == InitWith({1, 2}, NameLists \cup {COMPONENTS}, PlainFileSystems, 0)

NextRun == \E p \in Procs : Step(p)

SpecConc == InitConc /\ [][NextRun]_vars

\* one run for one name, the name any string over Alphabet of up to MaxLen
\* characters
Alphabet == {"a", "t", "B", "_"}
CapNames == UNION {[1..n -> Alphabet] : n \in 1..MaxLen}

InitCap == InitWith({1}, {<<n>> : n \in CapNames},
                    {FsOf(Chain(Len(TARGET_DIR), TRUE)),
                     FsOf(Chain(Len(TARGET_DIR) - 2, TRUE))}, 0)

SpecCap == InitCap /\ [][NextRun]_vars

----------------------------------------------------------------------------
(* What the claims are stated with *)

\* the lines instance p printed, in order
Console(p) ==
    LET pr == SelectSeq(trace[p], LAMBDA e : e.op = "print")
    IN [i \in 1..Len(pr) |-> pr[i].res]

\* the open and write calls of instance p, in order
FileCalls(p) == SelectSeq(trace[p], LAMBDA e : e.op \in {"open", "write"})

\* the paths instance p opened for writing in this run
Written(p) == {trace[p][i].path : i \in {j \in 1..Len(trace[p]) :
                   trace[p][j].op = "open" /\ trace[p][j].res = "ok"}}

Names == {components[i] : i \in 1..Len(components)}

\* the name with only its first character uppercased
UpperFirst(name) == [i \in 1..Len(name) |-> IF i = 1 THEN upper(name[i]) ELSE name[i]]

\* the page of a name, written out: the template's text with the preview
\* file in the import line and the capitalised name in the five other places
ExpectedPage(name) ==
    <<DART_TEMPLATE[1].text, Str(name) \o "_preview.dart",
      DART_TEMPLATE[3].text, Str(UpperFirst(name)),
      DART_TEMPLATE[5].text, Str(UpperFirst(name)),
      DART_TEMPLATE[7].text, Str(UpperFirst(name)),
      DART_TEMPLATE[9].text, Str(UpperFirst(name)),
      DART_TEMPLATE[11].text, Str(UpperFirst(name)),
      DART_TEMPLATE[13].text>>

\* the file of a name holds the whole page of the name
Complete(f, name) ==
    /\ FilePath(name) \in DOMAIN f
    /\ f[FilePath(name)].kind = "file"
    /\ f[FilePath(name)].data = ExpectedPage(name)

\* path is in g what it is in f: missing in both, or the same node
Same(f, g, path) ==
    IF path \in DOMAIN f THEN path \in DOMAIN g /\ g[path] = f[path]
    ELSE path \notin DOMAIN g

TargetIsDir(f) == TARGET_DIR \in DOMAIN f /\ f[TARGET_DIR].kind = "dir"

----------------------------------------------------------------------------
(* The claims *)

\* C1: when a run has completed, every listed name n has its file
\* n_page.dart in the target directory, holding exactly the page of n, and
\* the run opened for writing these files and no other, each of them once.
C1_FilesGenerated ==
    \A p \in active : pc[p] = "done" =>
        /\ \A n \in Names : Complete(fs, n)
        /\ Written(p) = {Append(TARGET_DIR, Str(n) \o "_page.dart") : n \in Names}
        /\ Len(FileCalls(p)) = 2 * Len(components)

C1_Witness ==
    /\ pc[1] = "done"
    /\ Len(components) = 2
    /\ FilePath(COMPONENTS[1]) \in DOMAIN fsStart[1]
    /\ COMPONENTS[1] \in Names
    /\ fsStart[1][FilePath(COMPONENTS[1])].data = Stale

\* C2: the capitalised identifier bound to the template is the name with
\* only its first character uppercased, for every non-empty name.
C2_UpperFirstOnly ==
    \A p \in active : idx[p] >= 1 =>
        subs[p].component_name_pascal_case = Str(UpperFirst(components[idx[p]]))

\* C3: when a run completes after a run that completed, every generated file
\* is what it was after that run; when it completes after a run that was
\* killed, every generated file is the whole page a completed run leaves.
C3_Idempotent ==
    \A p \in active : (pc[p] = "done" /\ prevStatus \in {"done", "killed"}) =>
        \A n \in Names :
            /\ FilePath(n) \in DOMAIN fs /\ fs[FilePath(n)].kind = "file"
            /\ prevStatus = "done" => Same(prevFs, fs, FilePath(n))
            /\ prevStatus = "killed" => fs[FilePath(n)].data = ExpectedPage(n)

C3_Witness ==
    /\ pc[1] = "done"
    /\ prevStatus = "killed"
    /\ Len(components) = 2
    /\ FilePath(components[1]) \in DOMAIN prevFs
    /\ prevFs[FilePath(components[1])].data = <<>>

\* C4: a run that starts with the target directory in place does not fail
\* before the loop, and at every moment every file the directory held at the
\* start whose name is not the page of a listed name is what it was.
C4_Frame ==
    \A p \in active : TargetIsDir(fsStart[p]) =>
        /\ ~(pc[p] = "error" /\ idx[p] = 0)
        /\ \A path \in DOMAIN fsStart[p] :
              (/\ Parent(path) = TARGET_DIR
               /\ fsStart[p][path].kind = "file"
               /\ path \notin {FilePath(n) : n \in Names})
              => Same(fsStart[p], fs, path)

C4_Witness ==
    /\ pc[1] = "done"
    /\ Len(components) = 2
    /\ Append(TARGET_DIR, "button_page.dart") \in DOMAIN fsStart[1]
    /\ FilePath(COMPONENTS[1]) \in DOMAIN fsStart[1]
    /\ COMPONENTS[1] \notin Names

\* C5 as claimed: a run that ended in an error did nothing after the call
\* that failed; the files of the names before the failing one hold their
\* whole pages; the file of the failing name and of every later name is what
\* it was when the run started; no progress line of the failing or a later
\* name and no closing message was printed.
C5_AbortClean ==
    \A p \in active : pc[p] = "error" =>
        LET printed == {Console(p)[l] : l \in 1..Len(Console(p))} IN
        /\ trace[p][Len(trace[p])].res = err[p]
        /\ \A i \in 1..Len(components) :
              /\ i < idx[p] => Complete(fs, components[i])
              /\ i >= idx[p] => /\ Same(fsStart[p], fs, FilePath(components[i]))
                                /\ FileLine(components[i]) \notin printed
        /\ CompleteBanner \notin printed

\* C5 amended: as claimed for every name after the failing one; the file of
\* the failing name is what it was when the run started if the run failed
\* before or at the open of it, and is left holding a proper prefix of its
\* page if the run failed at the write.
C5_AbortPartial ==
    \A p \in active : pc[p] = "error" =>
        LET printed == {Console(p)[l] : l \in 1..Len(Console(p))} IN
        /\ trace[p][Len(trace[p])].res = err[p]
        /\ \A i \in 1..Len(components) :
              LET path == FilePath(components[i])
                  page == ExpectedPage(components[i]) IN
              /\ i < idx[p] => Complete(fs, components[i])
              /\ i > idx[p] => Same(fsStart[p], fs, path)
              /\ i = idx[p] =>
                    IF trace[p][Len(trace[p])].op = "write"
                    THEN /\ path \in DOMAIN fs
                         /\ fs[path].kind = "file"
                         /\ Len(fs[path].data) < Len(page)
                         /\ fs[path].data = SubSeq(page, 1, Len(fs[path].data))
                    ELSE Same(fsStart[p], fs, path)
              /\ i >= idx[p] => FileLine(components[i]) \notin printed
        /\ CompleteBanner \notin printed

C5_Witness ==
    /\ pc[1] = "error"
    /\ idx[1] = 2
    /\ trace[1][Len(trace[1])].op = "write"
    /\ Len(fs[FilePath(components[2])].data) = 1
    /\ Complete(fs, components[1])

\* C6: in every run the first call, and no later one, is the existence check
\* of the target directory; every mkdir comes before every open; and the
\* opens and writes are open, write of the first name, open, write of the
\* second, and so on in list order, all of them when the run has completed.
C6_Order ==
    \A p \in active :
        LET calls == FileCalls(p)
            mkdirs == {i \in 1..Len(trace[p]) : trace[p][i].op = "mkdir"}
            files == {i \in 1..Len(trace[p]) : trace[p][i].op \in {"open", "write"}}
        IN
        /\ \A i \in 1..Len(trace[p]) :
              (trace[p][i].op = "exists" /\ trace[p][i].path = TARGET_DIR) <=> i = 1
        /\ \A i \in mkdirs : \A j \in files : i < j
        /\ Len(calls) <= 2 * Len(components)
        /\ \A j \in 1..Len(calls) :
              /\ calls[j].op = (IF j % 2 = 1 THEN "open" ELSE "write")
              /\ calls[j].path = FilePath(components[(j + 1) \div 2])
        /\ pc[p] = "done" => Len(calls) = 2 * Len(components)

C6_Witness ==
    /\ pc[1] = "done"
    /\ Len(components) = 2
    /\ \E i \in 1..Len(trace[1]) : trace[1][i].op = "mkdir"

\* C7: with an empty name list, a completed run that found the target path
\* missing created the directory; it opened no file and left every file of
\* the directory as it was; and it printed the starting banner and then the
\* closing banner, after the line of the directory if it created it.
C7_EmptyList ==
    \A p \in active : (components = <<>> /\ pc[p] = "done") =>
        /\ TARGET_DIR \notin DOMAIN fsStart[p] =>
              /\ TargetIsDir(fs)
              /\ \E i \in 1..Len(trace[p]) :
                    trace[p][i] = Event("mkdir", TARGET_DIR, "ok")
        /\ FileCalls(p) = <<>>
        /\ \A path \in DOMAIN fs \cup DOMAIN fsStart[p] :
              Parent(path) = TARGET_DIR => Same(fsStart[p], fs, path)
        /\ Console(p) = (IF TARGET_DIR \in DOMAIN fsStart[p] THEN <<>> ELSE <<CreatedLine>>)
                        \o <<StartBanner, CompleteBanner>>

C7_Witness ==
    /\ components = <<>>
    /\ pc[1] = "done"
    /\ TARGET_DIR \notin DOMAIN fsStart[1]
    /\ TargetIsDir(fs)

\* C8 as claimed: the console of a completed run is the line of the
\* directory if and only if the run created it, then a blank line and the
\* starting message, then one line for each listed name in list order, each
\* after the write of its file, and last the closing message.
C8_Console ==
    \A p \in active : pc[p] = "done" =>
        /\ Console(p) =
              (IF \E i \in 1..Len(trace[p]) : trace[p][i] = Event("mkdir", TARGET_DIR, "ok")
               THEN <<CreatedLine>> ELSE <<>>)
              \o <<"", "Starting file generation...">>
              \o [i \in 1..Len(components) |-> FileLine(components[i])]
              \o <<CompleteBanner>>
        /\ \A i \in 1..Len(trace[p]) : \A k \in 1..Len(components) :
              trace[p][i] = Event("print", <<>>, FileLine(components[k]))
              => \E j \in 1..(i - 1) :
                    trace[p][j] = Event("write", FilePath(components[k]), "ok")

\* C9 as claimed: when two instances started together have both ended, both
\* completed and every listed name's file holds its whole page.
C9_ConcurrentClean ==
    (\A p \in active : pc[p] \in {"done", "error"}) =>
        /\ \A p \in active : pc[p] = "done"
        /\ \A n \in Names : Complete(fs, n)

\* C9 amended: when both have ended, every listed name's file holds its
\* whole page and at least one instance completed; an instance that did not
\* found the target directory missing, got FileExistsError from the last
\* mkdir of makedirs because the other instance had created the directory
\* in between, and opened no file.  If the directory was there at the start,
\* both completed.
C9_ConcurrentFiles ==
    (\A p \in active : pc[p] \in {"done", "error"}) =>
        /\ \A n \in Names : Complete(fs, n)
        /\ \E p \in active : pc[p] = "done"
        /\ \A p \in active : pc[p] = "error" =>
              /\ err[p] = "FileExistsError"
              /\ trace[p][1] = Event("exists", TARGET_DIR, "False")
              /\ trace[p][Len(trace[p])] = Event("mkdir", TARGET_DIR, "FileExistsError")
              /\ FileCalls(p) = <<>>
              /\ TARGET_DIR \notin DOMAIN fsStart[p]
        /\ (\A p \in active : TargetIsDir(fsStart[p])) => \A p \in active : pc[p] = "done"

C9_Witness ==
    /\ active = {1, 2}
    /\ pc[1] = "done"
    /\ pc[2] = "error"
    /\ Len(components) = 2
    /\ \E i \in 1..Len(trace[2]) : trace[2][i] = Event("mkdir", Parent(TARGET_DIR), "FileExistsError")

\* C10 as claimed: an instance that is at the open of a file has the target
\* path in place as a directory.
C10_DirBeforeWrite ==
    \A p \in active : pc[p] = "open" => TargetIsDir(fs)

====
